---- MODULE Spec2Model ----
(***************************************************************************)
(* Model of arrow/util/logging.cc: the ArrowLog facade over its two        *)
(* logging providers, CerrLog (the default, writing to the console) and    *)
(* google::LogMessage (when ARROW_USE_GLOG is defined).                    *)
(*                                                                         *)
(* The build configuration (ARROW_USE_GLOG, availability of execinfo) is   *)
(* fixed in the initial state.  The operations are StartArrowLog,          *)
(* ShutDownArrowLog, the ArrowLog constructor, ArrowLog::Stream followed   *)
(* by one write to the returned stream, and the ArrowLog destructor.       *)
(***************************************************************************)
EXTENDS Integers, Sequences, FiniteSets, TLC

VARIABLES
    use_glog,             \* ARROW_USE_GLOG is defined in this build
    has_backtrace,        \* defined(_EXECINFO_H) || !defined(_WIN32)
    severity_threshold_,  \* ArrowLog::severity_threshold_
    app_name_,            \* ArrowLog::app_name_ : <<>> is the null pointer, <<s>> owns the string s
    working_dir_,         \* ArrowLog::working_dir_
    glog,                 \* what the facade has configured in the glog library
    records,              \* the ArrowLog objects alive, in construction order
    destroyed,            \* <<>> or <<r>>, r the ArrowLog object destroyed last
    stdout_,              \* the texts written to file descriptor 1 so far
    process,              \* "running", "aborted" (std::abort) or "crashed" (fault)
    start_req,            \* <<>> or <<t>>, t the threshold argument of the last StartArrowLog that returned
    unsupported           \* how the last run of the default branch of GetMappedSeverity ended

vars == <<use_glog, has_backtrace, severity_threshold_, app_name_, working_dir_,
          glog, records, destroyed, stdout_, process, start_req, unsupported>>

----------------------------------------------------------------------------
(* Severity levels of logging.h.                                           *)
ARROW_DEBUG == -1
ARROW_INFO == 0
ARROW_WARNING == 1
ARROW_ERROR == 2
ARROW_FATAL == 3

(* Bounds of the model.                                                     *)
MaxNameLen == 3   \* longest application name
MaxRecords == 1   \* ArrowLog objects alive at a time
MaxAppends == 1   \* writes through Stream() per ArrowLog object

(* The int values tried as severities and thresholds: the five levels, one *)
(* value below them and one above.                                          *)
Levels == {ARROW_DEBUG, ARROW_INFO, ARROW_WARNING, ARROW_ERROR, ARROW_FATAL}
Severities == Levels \cup {ARROW_DEBUG - 1, ARROW_FATAL + 1}

Chars == {"/", "a"}
RECURSIVE StringsUpTo(_)
StringsUpTo(n) ==
    IF n = 0 THEN {<<>>}
    ELSE LET S == StringsUpTo(n - 1)
         IN  S \cup {Append(s, c) : s \in {t \in S : Len(t) = n - 1}, c \in Chars}
AppNames == StringsUpTo(MaxNameLen)                     \* names tried by SpecStart
LogDirs == {<<>>, <<"d">>, <<"d", "/">>}                \* directories tried by SpecStart
AppName == <<"/", "a">>                                 \* the name passed under Spec
LogDir == <<"d">>                                       \* the directory passed under Spec
Contents == {"hello"}

STDOUT == 1
STDERR == 2

----------------------------------------------------------------------------
(* A constructor that compares with > instead of >=.                        *)
IsEnabledForStrict(severity, threshold) == severity > threshold

(* ArrowLog::ArrowLog, member initialiser of is_enabled_.                   *)
IsEnabledFor(severity, threshold) == severity >= threshold

(* GetMappedSeverity: the glog level of a severity, and whether the        *)
(* default branch ran.                                                      *)
GetMappedSeverity(severity) ==
    CASE severity = ARROW_DEBUG   -> [level |-> "GLOG_INFO", default |-> FALSE]
      [] severity = ARROW_INFO    -> [level |-> "GLOG_INFO", default |-> FALSE]
      [] severity = ARROW_WARNING -> [level |-> "GLOG_WARNING", default |-> FALSE]
      [] severity = ARROW_ERROR   -> [level |-> "GLOG_ERROR", default |-> FALSE]
      [] severity = ARROW_FATAL   -> [level |-> "GLOG_FATAL", default |-> FALSE]
      [] OTHER                    -> [level |-> "GLOG_FATAL", default |-> TRUE]

(* ARROW_LOG(FATAL) << ... in the default branch of GetMappedSeverity: the *)
(* ways the statement can end.  The temporary ArrowLog is enabled exactly  *)
(* when ARROW_FATAL >= severity_threshold_; only then does it own a        *)
(* google::LogMessage of level GLOG_FATAL, whose destruction aborts.  A    *)
(* disabled temporary owns no provider and the statement falls through to  *)
(* the return.  Inserting a null app_name_ into the stream is undefined.   *)
UnsupportedLevelOutcomes(threshold, name) ==
    IF IsEnabledFor(ARROW_FATAL, threshold)
    THEN IF name = <<>> THEN {"aborted", "crashed"} ELSE {"aborted"}
    ELSE {"running"}

(* The log-file tag computed by StartArrowLog (app_name_without_path).     *)
DefaultApp == <<"D", "e", "f", "a", "u", "l", "t", "A", "p", "p">>

(* A StartArrowLog that searches the first '/' (find) instead of the last.  *)
AppNameWithoutPathFirst(app_name) ==
    IF app_name = <<>>
    THEN DefaultApp
    ELSE LET slashes == {i \in 1..Len(app_name) : app_name[i] = "/"}
             pos == IF slashes = {} THEN -1
                    ELSE (CHOOSE i \in slashes : \A j \in slashes : i <= j) - 1
         IN  IF pos # -1 /\ pos + 1 < Len(app_name)
             THEN SubSeq(app_name, pos + 2, Len(app_name))
             ELSE app_name

AppNameWithoutPath(app_name) ==
    IF app_name = <<>>
    THEN DefaultApp
    ELSE LET slashes == {i \in 1..Len(app_name) : app_name[i] = "/"}
             \* rfind: index from 0 of the last '/', -1 for npos
             pos == IF slashes = {} THEN -1
                    ELSE (CHOOSE i \in slashes : \A j \in slashes : j <= i) - 1
         IN  IF pos # -1 /\ pos + 1 < Len(app_name)
             THEN SubSeq(app_name, pos + 2, Len(app_name))
             ELSE app_name

(* An operator<< that writes without setting has_logged_.                  *)
CerrLogInsertUnmarked(cl, t) ==
    IF cl.severity_ # ARROW_DEBUG
    THEN [cl EXCEPT !.out = Append(@, [fd |-> STDERR, text |-> t])]
    ELSE cl

(* CerrLog::operator<< of t on the provider cl.                             *)
CerrLogInsert(cl, t) ==
    IF cl.severity_ # ARROW_DEBUG
    THEN [cl EXCEPT !.has_logged_ = TRUE,
                    !.out = Append(@, [fd |-> STDERR, text |-> t])]
    ELSE cl

(* The four insertions of the ArrowLog constructor.                         *)
Prefix == <<"file_name", ":", "line_number", ": ">>

RECURSIVE CerrLogInsertAll(_, _)
CerrLogInsertAll(cl, ts) ==
    IF ts = <<>> THEN cl
    ELSE CerrLogInsertAll(CerrLogInsert(cl, Head(ts)), Tail(ts))

(* The providers an ArrowLog object can own.  out is what the provider has *)
(* written to the console; buf is what a google::LogMessage has buffered.  *)
NullProvider == [kind |-> "null", out |-> <<>>]

NewCerrLog(severity) ==
    [kind |-> "CerrLog", severity_ |-> severity, has_logged_ |-> FALSE, out |-> <<>>]

NewLogMessage(level, buf, bad) ==
    [kind |-> "LogMessage", level |-> level, buf |-> buf, bad |-> bad, out |-> <<>>]

(* CerrLog::Stream() and one write of t to the returned stream.             *)
CerrLogStream(cl, t) ==
    [cl EXCEPT !.has_logged_ = TRUE,
               !.out = Append(@, [fd |-> STDERR, text |-> t])]

(* A destructor that prints the backtrace before it ends the line.         *)
CerrLogDestroyBacktraceFirst(cl, backtrace) ==
    LET traced == IF cl.severity_ = ARROW_FATAL /\ backtrace
                  THEN [cl EXCEPT !.out = Append(@, [fd |-> STDOUT, text |-> "backtrace"])]
                  ELSE cl
    IN  IF cl.has_logged_
        THEN [traced EXCEPT !.out = Append(@, [fd |-> STDERR, text |-> "endl"])]
        ELSE traced

(* CerrLog::~CerrLog up to PrintBackTrace; std::abort follows when the     *)
(* severity is ARROW_FATAL.                                                 *)
CerrLogDestroy(cl, backtrace) ==
    LET ended == IF cl.has_logged_
                 THEN [cl EXCEPT !.out = Append(@, [fd |-> STDERR, text |-> "endl"])]
                 ELSE cl
    IN  IF cl.severity_ = ARROW_FATAL /\ backtrace
        THEN [ended EXCEPT !.out = Append(@, [fd |-> STDOUT, text |-> "backtrace"])]
        ELSE ended

(* What deleting the provider p does to the process.                        *)
DestroyOutcome(p) ==
    CASE p.kind = "null" -> "running"
      [] p.kind = "CerrLog" -> IF p.severity_ = ARROW_FATAL THEN "aborted" ELSE "running"
      [] p.kind = "LogMessage" -> IF p.level = "GLOG_FATAL" THEN "aborted" ELSE "running"

(* The texts a provider has written to file descriptor 1.                   *)
StdoutOf(p) == {p.out[i].text : i \in {j \in 1..Len(p.out) : p.out[j].fd = STDOUT}}

(* The number of writes made through Stream() on the provider p.           *)
Written(p) ==
    Cardinality({j \in 1..Len(p.out) : p.out[j].text \in Contents})
    + (IF p.kind = "LogMessage"
       THEN Cardinality({j \in 1..Len(p.buf) : p.buf[j] \in Contents}) ELSE 0)

(* s without its i-th element.                                              *)
Remove(s, i) == SubSeq(s, 1, i - 1) \o SubSeq(s, i + 1, Len(s))

----------------------------------------------------------------------------
Init ==
    /\ use_glog \in BOOLEAN
    /\ has_backtrace \in (IF use_glog THEN {TRUE} ELSE BOOLEAN)
    /\ severity_threshold_ = ARROW_INFO
    /\ app_name_ = <<>>
    /\ working_dir_ = ""
    /\ glog = [initialized |-> FALSE, stderr_level |-> "unset",
               extension |-> <<>>, destination |-> <<>>]
    /\ records = <<>>
    /\ destroyed = <<>>
    /\ stdout_ = {}
    /\ process = "running"
    /\ start_req = <<>>
    /\ unsupported = "never"

----------------------------------------------------------------------------
(* The tail of StartArrowLog, common to both builds: getcwd, printf and    *)
(* the assignment of working_dir_.  getcwd may fail.                        *)
CaptureWorkingDir ==
    \E cwd_ok \in BOOLEAN :
        IF cwd_ok
        THEN /\ stdout_' = stdout_ \cup {"Current working dir: cwd\n"}
             /\ working_dir_' = "cwd"
        ELSE UNCHANGED <<stdout_, working_dir_>>

(* ArrowLog::StartArrowLog(app_name, severity_threshold, log_dir).          *)
StartArrowLog(app_name, severity_threshold, log_dir) ==
    /\ process = "running"
    /\ UNCHANGED <<use_glog, has_backtrace, records, destroyed>>
    /\ IF use_glog
       THEN LET m == GetMappedSeverity(severity_threshold)
                outcomes == IF m.default
                            THEN UnsupportedLevelOutcomes(severity_threshold, <<app_name>>)
                            ELSE {"running"}
                dir_ends_with_slash ==
                    IF log_dir # <<>> /\ log_dir[Len(log_dir)] # "/"
                    THEN Append(log_dir, "/") ELSE log_dir
            IN  /\ severity_threshold_' = severity_threshold
                /\ app_name_' = <<app_name>>
                /\ \E o \in outcomes :
                    /\ unsupported' =
                           IF m.default
                           THEN (IF o = "running" THEN "returned" ELSE o)
                           ELSE unsupported
                    /\ IF o = "running"
                       THEN /\ glog' = IF log_dir # <<>>
                                       THEN [initialized |-> TRUE,
                                             stderr_level |-> m.level,
                                             extension |-> <<AppNameWithoutPath(app_name)>>,
                                             destination |-> <<log_dir>>]
                                       ELSE [glog EXCEPT !.initialized = TRUE,
                                                         !.stderr_level = m.level]
                            /\ CaptureWorkingDir
                            /\ start_req' = <<severity_threshold>>
                            /\ UNCHANGED process
                       ELSE /\ process' = o
                            /\ UNCHANGED <<glog, stdout_, working_dir_, start_req>>
       ELSE /\ CaptureWorkingDir
            /\ start_req' = <<severity_threshold>>
            /\ UNCHANGED <<severity_threshold_, app_name_, glog, process, unsupported>>

(* ArrowLog::ShutDownArrowLog.                                              *)
ShutDownArrowLog ==
    /\ process = "running"
    /\ glog' = IF use_glog THEN [glog EXCEPT !.initialized = FALSE] ELSE glog
    /\ UNCHANGED <<use_glog, has_backtrace, severity_threshold_, app_name_, working_dir_,
                   records, destroyed, stdout_, process, start_req, unsupported>>

(* A newly constructed ArrowLog object.                                     *)
NewRecord(severity, provider) ==
    [severity |-> severity,
     is_enabled_ |-> IsEnabledFor(severity, severity_threshold_),
     logging_provider_ |-> provider]

(* ArrowLog::ArrowLog(file_name, line_number, severity).                    *)
Construct(severity) ==
    /\ process = "running"
    /\ Len(records) < MaxRecords
    /\ UNCHANGED <<use_glog, has_backtrace, severity_threshold_, app_name_, working_dir_,
                   glog, destroyed, stdout_, start_req>>
    /\ IF use_glog
       THEN IF IsEnabledFor(severity, severity_threshold_)
            THEN LET m == GetMappedSeverity(severity)
                     outcomes == IF m.default
                                 THEN UnsupportedLevelOutcomes(severity_threshold_, app_name_)
                                 ELSE {"running"}
                     \* stream() << "(" << app_name_.get() << "): " ; a null
                     \* app_name_ is undefined: the stream goes bad or the process faults
                     prefixes == IF app_name_ = <<>> THEN {"badbit", "crashed"} ELSE {"ok"}
                 IN  \E o \in outcomes, q \in prefixes :
                       /\ unsupported' =
                              IF m.default
                              THEN (IF o = "running" THEN "returned" ELSE o)
                              ELSE unsupported
                       /\ IF o # "running"
                          THEN process' = o /\ UNCHANGED records
                          ELSE IF q = "crashed"
                          THEN process' = "crashed" /\ UNCHANGED records
                          ELSE /\ records' = Append(records, NewRecord(severity,
                                      NewLogMessage(m.level,
                                          IF q = "ok" THEN <<"(", "app_name", "): ">>
                                          ELSE <<"(">>,
                                          q = "badbit")))
                               /\ UNCHANGED process
            ELSE /\ records' = Append(records, NewRecord(severity, NullProvider))
                 /\ UNCHANGED <<process, unsupported>>
       ELSE /\ records' = Append(records,
                    NewRecord(severity, CerrLogInsertAll(NewCerrLog(severity), Prefix)))
            /\ UNCHANGED <<process, unsupported>>

(* ArrowLog::Stream() on the i-th object alive, and one write of t to the  *)
(* returned stream.  With glog, an object that is not enabled has no       *)
(* provider and the call dereferences a null pointer.                       *)
Stream(i, t) ==
    /\ process = "running"
    /\ i \in 1..Len(records)
    /\ Written(records[i].logging_provider_) < MaxAppends
    /\ UNCHANGED <<use_glog, has_backtrace, severity_threshold_, app_name_, working_dir_,
                   glog, destroyed, stdout_, start_req, unsupported>>
    /\ LET p == records[i].logging_provider_
       IN  CASE p.kind = "CerrLog" ->
                  /\ records' = [records EXCEPT ![i].logging_provider_ = CerrLogStream(p, t)]
                  /\ UNCHANGED process
             [] p.kind = "LogMessage" ->
                  /\ records' = [records EXCEPT
                                   ![i].logging_provider_.buf = IF p.bad THEN @ ELSE Append(@, t)]
                  /\ UNCHANGED process
             [] p.kind = "null" ->
                  /\ \E o \in {"crashed", "running"} : process' = o
                  /\ UNCHANGED records

(* ArrowLog::~ArrowLog on the i-th object alive: deletes the provider,     *)
(* running CerrLog::~CerrLog or google::LogMessage::~LogMessage.            *)
Destroy(i) ==
    /\ process = "running"
    /\ i \in 1..Len(records)
    /\ UNCHANGED <<use_glog, has_backtrace, severity_threshold_, app_name_, working_dir_,
                   glog, start_req, unsupported>>
    /\ LET p == records[i].logging_provider_
           q == IF p.kind = "CerrLog" THEN CerrLogDestroy(p, has_backtrace) ELSE p
       IN  /\ records' = Remove(records, i)
           /\ destroyed' = <<[records[i] EXCEPT !.logging_provider_ = q]>>
           /\ stdout_' = stdout_ \cup StdoutOf(q)
           /\ process' = DestroyOutcome(p)

Next ==
    \/ \E t \in Severities : StartArrowLog(AppName, t, LogDir)
    \/ ShutDownArrowLog
    \/ \E s \in Severities : Construct(s)
    \/ \E i \in 1..MaxRecords, t \in Contents : Stream(i, t)
    \/ \E i \in 1..MaxRecords : Destroy(i)

Spec == Init /\ [][Next]_vars

(* StartArrowLog and ShutDownArrowLog alone, over every application name   *)
(* and log directory of the bounds.                                         *)
NextStart ==
    \/ \E n \in AppNames, d \in LogDirs : StartArrowLog(n, ARROW_INFO, d)
    \/ ShutDownArrowLog

SpecStart == Init /\ [][NextStart]_vars

----------------------------------------------------------------------------
(* Properties.                                                              *)

Direct == ~use_glog

(* The ArrowLog objects of the state: those alive and the one destroyed last. *)
Known == {records[i] : i \in 1..Len(records)} \cup {destroyed[i] : i \in 1..Len(destroyed)}

(* The texts an ArrowLog object has written to standard error.              *)
StderrOf(r) ==
    LET out == r.logging_provider_.out
    IN  [i \in 1..Len(out) |-> out[i].text]

EnabledFlags(rs) == [i \in 1..Len(rs) |-> rs[i].is_enabled_]

(* C1: a record constructed at severity S under threshold T has            *)
(* IsEnabled() = (S >= T), and no later step (Stream, StartArrowLog, the   *)
(* construction or destruction of another record) changes the IsEnabled()  *)
(* of a record that stays alive.                                            *)
C1_EnabledFixedAtConstruction ==
    [][/\ Len(records') > Len(records) =>
            LET r == records'[Len(records')]
            IN  /\ r.is_enabled_ = (r.severity >= severity_threshold_)
                /\ EnabledFlags(SubSeq(records', 1, Len(records))) = EnabledFlags(records)
       /\ Len(records') = Len(records) => EnabledFlags(records') = EnabledFlags(records)
       /\ Len(records') < Len(records) =>
            \E i \in 1..Len(records) :
                /\ EnabledFlags(records') = EnabledFlags(Remove(records, i))
                /\ destroyed'[1].is_enabled_ = records[i].is_enabled_]_vars

(* A record is alive whose flag differs from what the present threshold    *)
(* would give: the threshold moved after the record was constructed.       *)
C1_Witness ==
    \E i \in 1..Len(records) :
        /\ records[i].is_enabled_
        /\ records[i].severity < severity_threshold_
        /\ start_req # <<>>

(* C2: a FATAL record is enabled whatever the threshold is, and its        *)
(* destruction terminates the process in both builds.                       *)
C2_FatalAlwaysEnabledAndTerminates ==
    /\ \A r \in Known : r.severity = ARROW_FATAL => r.is_enabled_
    /\ (destroyed # <<>> /\ destroyed[1].severity = ARROW_FATAL) => process # "running"

(* C3: a disabled record has written nothing, neither while alive nor once *)
(* destroyed.                                                               *)
C3_DisabledWritesNothing ==
    \A r \in Known : ~r.is_enabled_ => r.logging_provider_.out = <<>>

(* C4: in the build without glog, no content written to a DEBUG record     *)
(* reaches the console.                                                     *)
C4_DebugContentSuppressed ==
    Direct =>
        \A r \in Known :
            r.severity = ARROW_DEBUG =>
                \A i \in 1..Len(StderrOf(r)) : StderrOf(r)[i] \notin Contents

(* What a record of the build without glog may have written before its     *)
(* destructor ran: prefix and contents, on standard error.                  *)
IsLineBody(out) ==
    \A i \in 1..Len(out) : out[i].fd = STDERR /\ out[i].text \notin {"endl", "backtrace"}

(* C5: in the build without glog, the destructor of a FATAL record writes  *)
(* the line terminator (when something was written), then the backtrace,   *)
(* then aborts; and no step of the program starts in a state where the     *)
(* process has terminated.                                                  *)
C5_FatalEndsLineTracesAborts ==
    /\ [](Direct /\ destroyed # <<>> /\ destroyed[1].severity = ARROW_FATAL =>
            /\ process = "aborted"
            /\ \E body \in {SubSeq(destroyed[1].logging_provider_.out, 1, n) :
                              n \in 0..Len(destroyed[1].logging_provider_.out)} :
                 /\ IsLineBody(body)
                 /\ destroyed[1].logging_provider_.out =
                        body
                        \o (IF body # <<>> THEN <<[fd |-> STDERR, text |-> "endl"]>> ELSE <<>>)
                        \o (IF has_backtrace THEN <<[fd |-> STDOUT, text |-> "backtrace"]>>
                            ELSE <<>>))
    /\ [][process = "running"]_vars

(* A FATAL record with a prefix and a content was destroyed on a platform  *)
(* with backtraces.                                                         *)
C5_Witness ==
    /\ Direct
    /\ has_backtrace
    /\ process = "aborted"
    /\ destroyed # <<>>
    /\ destroyed[1].severity = ARROW_FATAL
    /\ \E i \in 1..Len(StderrOf(destroyed[1])) : StderrOf(destroyed[1])[i] \in Contents

C7_ThresholdIsTheOnePassed ==
    (process = "running" /\ start_req # <<>>) => severity_threshold_ = start_req[1]

(* C8: in the build without glog, nothing is written to standard output.   *)
C8_NothingOnStdout ==
    Direct => stdout_ = {}

(* t is the part of name after its last '/': a suffix without '/' that is  *)
(* the whole name or follows a '/'.                                         *)
IsAfterLastSlash(t, name) ==
    /\ Len(t) <= Len(name)
    /\ t = SubSeq(name, Len(name) - Len(t) + 1, Len(name))
    /\ \A i \in 1..Len(t) : t[i] # "/"
    /\ Len(t) < Len(name) => name[Len(name) - Len(t)] = "/"

(* C9 as stated: whenever StartArrowLog sets the log-file tag, the tag is  *)
(* "DefaultApp" for the empty name and otherwise the part of the name      *)
(* after its last '/', which contains no '/'.                               *)
C9_TagIsAfterLastSlash ==
    [][glog'.extension # glog.extension =>
         LET name == app_name_'[1]
             tag == glog'.extension[1]
         IN  IF name = <<>> THEN tag = DefaultApp ELSE IsAfterLastSlash(tag, name)]_vars

(* C9 amended: whenever StartArrowLog sets the log-file tag, the tag is    *)
(* "DefaultApp" for the empty name, the name unchanged when it ends in     *)
(* '/', and otherwise the part of the name after its last '/', which       *)
(* contains no '/'.                                                         *)
C9_TagIsAfterLastSlashUnlessTrailing ==
    [][glog'.extension # glog.extension =>
         LET name == app_name_'[1]
             tag == glog'.extension[1]
         IN  CASE name = <<>> -> tag = DefaultApp
               [] name # <<>> /\ name[Len(name)] = "/" -> tag = name
               [] OTHER -> IsAfterLastSlash(tag, name)]_vars

(* A path prefix with two '/' was stripped from the name.                   *)
C9_Witness ==
    /\ app_name_ = << <<"/", "/", "a">> >>
    /\ glog.extension = << <<"a">> >>

(* C10: the default branch of GetMappedSeverity never returns to its       *)
(* caller: whenever it has run, the process has terminated.                 *)
C10_UnsupportedLevelNeverReturns ==
    unsupported # "never" => (unsupported # "returned" /\ process # "running")

====
